---- MODULE Spec2Model ----
(***************************************************************************)
(* Staleness resolution of Docker images, workflow/snakemake_tools.py.     *)
(*                                                                         *)
(* The host engine's workers call docker_image_marker(image) and           *)
(* _docker_requirements(image, include_self).  Every subprocess call and   *)
(* every file read of the code is one step of the worker that makes it;    *)
(* git, the clock, the Docker daemon, the registry and the .version file   *)
(* are the environment, which changes between the steps.                   *)
(***************************************************************************)
EXTENDS Integers, Sequences, FiniteSets, TLC

(***************************************************************************)
(* Bounds of the model.                                                    *)
(***************************************************************************)
MaxTime == 2        \* the clock runs 0..MaxTime
MaxEnv == 1         \* changes of the environment in one run
MaxCalls == 2       \* calls the host engine makes in one run
MaxDepth == 4       \* frames of docker_file_age in one walk of the base chain

Time == 0..MaxTime

(***************************************************************************)
(* Python's string operations, on TLA+ strings.                            *)
(***************************************************************************)
startswith(s, p) == Len(s) >= Len(p) /\ SubSeq(s, 1, Len(p)) = p

endswith(s, p) == Len(s) >= Len(p) /\ SubSeq(s, Len(s) - Len(p) + 1, Len(s)) = p

\* the index of the first occurrence of p in s at or after i, 0 when none
RECURSIVE find(_, _, _)
find(s, p, i) ==
    IF i + Len(p) - 1 > Len(s) THEN 0
    ELSE IF SubSeq(s, i, i + Len(p) - 1) = p THEN i
    ELSE find(s, p, i + 1)

\* s.replace(old, "")
RECURSIVE remove(_, _)
remove(s, old) ==
    LET i == find(s, old, 1)
    IN  IF i = 0 THEN s
        ELSE SubSeq(s, 1, i - 1) \o remove(SubSeq(s, i + Len(old), Len(s)), old)

\* s.split(sep), sep one character
RECURSIVE split(_, _)
split(s, sep) ==
    LET i == find(s, sep, 1)
    IN  IF i = 0 THEN <<s>>
        ELSE <<SubSeq(s, 1, i - 1)>> \o split(SubSeq(s, i + 1, Len(s)), sep)

(***************************************************************************)
(* The images directory, ../docker: one directory per image.               *)
(***************************************************************************)
Images == {"op", "op-r-base", "op-r-extras"}

NAMESPACE == "singlecellopenproblems"

\* first lines of a Dockerfile
FromExternal == "FROM ubuntu:20.04\n"
FromImage(base) == "FROM " \o NAMESPACE \o "/" \o base \o ":latest\n"

NoFile == "<no file>"
NoBase == "<None>"
IndexError == "<IndexError>"

FirstLines == {FromExternal} \cup {FromImage(i) : i \in Images}

\* the directory listings the model draws from; every file is tracked by git
FileNames == {"Dockerfile", "r_requirements.txt", "README.md"}

\* os.path.join(IMAGES_DIR, image, filename)
Path(image, filename) == <<image, filename>>

DOCKER_BUILD == ".docker_build"
DOCKER_UPDATE == ".docker_update"

ABSENT == -1

(***************************************************************************)
(* State.                                                                  *)
(***************************************************************************)
VARIABLES
    now,          \* the environment: time.time()
    dockerfile,   \* first line of each image's Dockerfile, or NoFile
    dirty,        \* per image directory, whether git status --porcelain prints anything
    gitlog,       \* per image directory, what git log -1 prints for "<dir>/*"
    localImg,     \* per image, what the local Docker daemon holds
    remoteImg,    \* per image, what the registry holds
    versionFile,  \* the build-version record, ../docker/.version
    envCount,     \* changes of the environment so far
    threads,      \* workers of the host engine in this run
    cache,        \* functools.lru_cache of docker_image_marker
    pc,           \* per worker, the step it is at
    call,         \* per worker, the host engine's call in progress
    req,          \* per worker, the frame of _docker_requirements
    mk,           \* per worker, the frame of docker_image_marker
    ret,          \* per worker, what its last call returned or raised
    last,         \* per worker, its last finished docker_image_marker
    ages,         \* per image, what docker_file_age last returned for it
    misses,       \* per image, entries into the body of docker_image_marker
    stores,       \* per image, results stored into the cache
    ncalls,       \* calls made by the host engine so far
    gate          \* the calls of version_not_changed so far and what they returned

envVars == <<now, dockerfile, dirty, gitlog, localImg, remoteImg, versionFile, envCount>>
progVars == <<cache, pc, call, req, mk, ret, last, ages, misses, stores, ncalls, gate>>
vars == <<now, dockerfile, dirty, gitlog, localImg, remoteImg, versionFile, envCount,
          threads, cache, pc, call, req, mk, ret, last, ages, misses, stores, ncalls, gate>>

Workers == {"w1", "w2"}
Active == IF threads = 1 THEN {"w1"} ELSE Workers

(***************************************************************************)
(* The repository on disk.                                                 *)
(***************************************************************************)
\* files beside the Dockerfile, per image directory
Extras ==
    [i \in Images |->
        CASE i = "op" -> {"README.md"}
          [] i = "op-r-base" -> {"r_requirements.txt"}
          [] OTHER -> {}]

isdir(name) == name \in Images

\* os.listdir(docker_dir); every listed file is tracked by git
listdir(name) ==
    IF ~isdir(name) THEN {}
    ELSE (IF dockerfile[name] = NoFile THEN {} ELSE {"Dockerfile"}) \cup Extras[name]

\* op <- op-r-base <- op-r-extras
ChainLayout ==
    [i \in Images |->
        CASE i = "op" -> FromExternal
          [] i = "op-r-base" -> FromImage("op")
          [] OTHER -> FromImage("op-r-base")]

Layouts == {ChainLayout}

(***************************************************************************)
(* _docker_base                                                            *)
(***************************************************************************)
\* lines 116-121 on the first line of a Dockerfile
BaseOfLine(line) ==
    LET base_image == remove(line, "FROM ")
    IN  IF startswith(base_image, NAMESPACE)
        THEN LET parts == split(split(base_image, ":")[1], "/")
             IN  IF Len(parts) < 2 THEN [raised |-> TRUE, value |-> IndexError]
                 ELSE [raised |-> FALSE, value |-> parts[2]]
        ELSE [raised |-> FALSE, value |-> NoBase]

ParsedBase == [l \in FirstLines |-> BaseOfLine(l)]

\* _docker_base, were every base external
_docker_base_external(image) ==
    IF ~isdir(image) \/ dockerfile[image] = NoFile
    THEN [raised |-> TRUE, value |-> "FileNotFoundError"]
    ELSE [raised |-> FALSE, value |-> NoBase]

\* _docker_base, were a missing Dockerfile read as one with an external base
_docker_base_or_none(image) ==
    IF ~isdir(image) \/ dockerfile[image] = NoFile
    THEN [raised |-> FALSE, value |-> NoBase]
    ELSE ParsedBase[dockerfile[image]]

_docker_base(image) ==
    IF ~isdir(image) \/ dockerfile[image] = NoFile
    THEN [raised |-> TRUE, value |-> "FileNotFoundError"]
    ELSE ParsedBase[dockerfile[image]]

(***************************************************************************)
(* The version-control oracle.                                             *)
(***************************************************************************)
\* what git log -1 --format="%ad" --date=unix prints: a timestamp, nothing, or
\* some other text
GitInt(t) == [out |-> "int", ts |-> t]
GitEmpty == [out |-> "empty", ts |-> 0]
GitText == [out |-> "text", ts |-> 0]

\* git status --porcelain --untracked-files=no "<dir>/*" prints something
git_file_diff(name) == isdir(name) /\ dirty[name]

\* the output of git log for "<dir>/*"
GitLogOf(name) == IF isdir(name) /\ listdir(name) # {} THEN gitlog[name] ELSE GitEmpty

\* git_file_age, were every output that is not an integer fatal
git_file_age_strict(name) ==
    IF git_file_diff(name)
    THEN [raised |-> FALSE, value |-> now, warned |-> FALSE]
    ELSE LET result == GitLogOf(name)
         IN  IF result.out = "int"
             THEN [raised |-> FALSE, value |-> result.ts, warned |-> FALSE]
             ELSE [raised |-> TRUE, value |-> 0, warned |-> FALSE]

git_file_age(name) ==
    IF git_file_diff(name)
    THEN [raised |-> FALSE, value |-> now, warned |-> FALSE]
    ELSE LET result == GitLogOf(name)
         IN  CASE result.out = "int" -> [raised |-> FALSE, value |-> result.ts, warned |-> FALSE]
               [] result.out = "empty" -> [raised |-> FALSE, value |-> 0, warned |-> TRUE]
               [] OTHER -> [raised |-> TRUE, value |-> 0, warned |-> FALSE]

Max(a, b) == IF a >= b THEN a ELSE b

\* docker_file_age, were the age of the base not taken into the result
OwnAgesOnly(levels) == levels

\* docker_file_age, lines 219-221, on the way back up: levels is the sequence of
\* <<image, git_file_age of its directory>> from the image asked for down to the
\* image with an external base; the result gives each level's returned age
RECURSIVE FileAges(_)
FileAges(levels) ==
    IF Len(levels) = 1 THEN levels
    ELSE LET rest == FileAges(Tail(levels))
         IN  <<<<levels[1][1], Max(levels[1][2], rest[1][2])>>>> \o rest

(***************************************************************************)
(* The container runtime and the registry.                                 *)
(***************************************************************************)
NoImage == [st |-> "absent", created |-> 0]
Image(t) == [st |-> "image", created |-> t]
\* an image whose Created field docker prints in another format
OddImage == [st |-> "odd", created |-> 0]

\* docker inspect -f="{{.Created}}", stripped: the kind of date_string
Inspect(image) ==
    CASE localImg[image].st = "image" -> "date"
      [] localImg[image].st = "absent" -> "empty"
      [] OTHER -> "text"

\* docker_image_exists: the return code of docker (manifest) inspect
docker_image_exists(image, local) ==
    IF local THEN localImg[image].st # "absent" ELSE remoteImg[image].st # "absent"

(***************************************************************************)
(* The code version gate.                                                  *)
(***************************************************************************)
VersionNotLess(a, b) ==
    \/ a[1] > b[1]
    \/ a[1] = b[1] /\ a[2] >= b[2]

\* packaging.version.parse(...) > packaging.version.parse(...), on release tuples
VersionGreater(a, b) ==
    \/ a[1] > b[1]
    \/ a[1] = b[1] /\ a[2] > b[2]

\* openproblems.__version__
CurrVersion == <<0, 10>>
Versions == {<<0, 9>>, <<0, 10>>, <<1, 0>>}
NoVersionFile == [exists |-> FALSE, version |-> <<0, 0>>]
VersionRecord(v) == [exists |-> TRUE, version |-> v]

version_not_changed ==
    IF ~versionFile.exists THEN FALSE
    ELSE IF VersionGreater(CurrVersion, versionFile.version) THEN FALSE
    ELSE TRUE

(***************************************************************************)
(* Frames, results and the initial state.                                  *)
(***************************************************************************)
\* every name docker_image_marker can be asked for: the directories and the
\* bases the Dockerfiles name
Names == Images \cup ({ParsedBase[l].value : l \in FirstLines} \ {NoBase, IndexError})

NoPath == <<"", "">>

NoCall == [fn |-> "none", image |-> "", include_self |-> FALSE]
NoReq == [image |-> "", include_self |-> FALSE, acc |-> {}]
NoMk == [image |-> "", cur |-> "", levels |-> <<>>, own |-> <<>>, file_ts |-> 0,
         image_ts |-> 0,
         pull_on_error |-> TRUE, outs |-> <<>>, pulls |-> 0, remote |-> <<>>,
         build_version |-> NoVersionFile]
NoRet == [fn |-> "none", image |-> "", include_self |-> FALSE, raised |-> FALSE,
          error |-> "", marker |-> NoPath, files |-> {}]
NoLast == [image |-> "", how |-> "none", own |-> <<>>, file_ts |-> 0, image_ts |-> 0,
           build_version |-> NoVersionFile, codespec_changed |-> FALSE,
           exists_local |-> "unread", exists_remote |-> "unread",
           branch |-> "none", marker |-> NoPath, env |-> 0]
NoAge == [done |-> FALSE, ts |-> 0]
NoGate == [reads |-> 0, values |-> {}]

\* the frame of a fresh docker_image_marker(image)
NewMk(image) == [NoMk EXCEPT !.image = image, !.cur = image]

\* git at the start: every directory committed at 0, no directory with any
\* history, the Dockerfile of op edited and not committed
Clean == [i \in Images |-> FALSE]
Committed == [log |-> [i \in Images |-> GitInt(0)], dirty |-> Clean]
GitStates == {Committed,
              [log |-> [i \in Images |-> GitEmpty], dirty |-> Clean],
              [log |-> [i \in Images |-> GitInt(0)],
               dirty |-> [Clean EXCEPT !["op"] = TRUE]]}
LocalStates == {NoImage, Image(0), OddImage}
RemoteStates == {NoImage, Image(0)}
VersionFiles == {NoVersionFile} \cup {VersionRecord(v) : v \in Versions}

\* the conditions a run starts in: around a repository that is committed, built,
\* pushed and recorded at the running version, git varies, or the daemon and the
\* registry vary, or the build-version record varies
Starts ==
    {[git |-> g, local |-> Image(0), remote |-> Image(0),
      version |-> VersionRecord(CurrVersion)] : g \in GitStates}
    \cup {[git |-> Committed, local |-> l, remote |-> r,
           version |-> VersionRecord(CurrVersion)] : l \in LocalStates, r \in RemoteStates}
    \cup {[git |-> Committed, local |-> Image(0), remote |-> Image(0),
           version |-> v] : v \in VersionFiles}

InitProgram ==
    /\ cache = <<>>
    /\ pc = [w \in Workers |-> "idle"]
    /\ call = [w \in Workers |-> NoCall]
    /\ req = [w \in Workers |-> NoReq]
    /\ mk = [w \in Workers |-> NoMk]
    /\ ret = [w \in Workers |-> NoRet]
    /\ last = [w \in Workers |-> NoLast]
    /\ ages = [i \in Images |-> NoAge]
    /\ misses = [n \in Names |-> 0]
    /\ stores = [i \in Images |-> 0]
    /\ ncalls = 0
    /\ gate = NoGate

InitEnv(s) ==
    /\ now = 1
    /\ dockerfile \in Layouts
    /\ gitlog = s.git.log
    /\ dirty = s.git.dirty
    /\ localImg = [i \in Images |-> s.local]
    /\ remoteImg = [i \in Images |-> s.remote]
    /\ versionFile = s.version
    /\ envCount = 0

\* a run of one worker
Init ==
    /\ \E s \in Starts : InitEnv(s)
    /\ threads = 1
    /\ InitProgram

(***************************************************************************)
(* The environment.                                                        *)
(***************************************************************************)
\* the clock advances
Tick ==
    /\ envCount < MaxEnv
    /\ now < MaxTime
    /\ now' = now + 1
    /\ envCount' = envCount + 1
    /\ UNCHANGED <<dockerfile, dirty, gitlog, localImg, remoteImg, versionFile>>
    /\ UNCHANGED <<threads, cache, pc, call, req, mk, ret, last, ages, misses, stores, ncalls, gate>>

\* a file of an image directory, any file the glob "<dir>/*" matches, is edited:
\* git status of the directory prints something from then on
Edit(image, f) ==
    /\ envCount < MaxEnv
    /\ ~dirty[image]
    /\ f \in listdir(image)
    /\ dirty' = [dirty EXCEPT ![image] = TRUE]
    /\ envCount' = envCount + 1
    /\ UNCHANGED <<now, dockerfile, gitlog, localImg, remoteImg, versionFile>>
    /\ UNCHANGED <<threads, cache, pc, call, req, mk, ret, last, ages, misses, stores, ncalls, gate>>

\* the images the daemon builds or removes while the workers run: the root of
\* the chain, which every resolution of the chain reads
Rebuilt == {"op"}

\* docker build by a rule of the workflow
DockerBuild(image) ==
    /\ envCount < MaxEnv
    /\ image \in Rebuilt
    /\ localImg[image] # Image(now)
    /\ localImg' = [localImg EXCEPT ![image] = Image(now)]
    /\ envCount' = envCount + 1
    /\ UNCHANGED <<now, dockerfile, dirty, gitlog, remoteImg, versionFile>>
    /\ UNCHANGED <<threads, cache, pc, call, req, mk, ret, last, ages, misses, stores, ncalls, gate>>

\* docker rmi
DockerRemove(image) ==
    /\ envCount < MaxEnv
    /\ image \in Rebuilt
    /\ localImg[image] # NoImage
    /\ localImg' = [localImg EXCEPT ![image] = NoImage]
    /\ envCount' = envCount + 1
    /\ UNCHANGED <<now, dockerfile, dirty, gitlog, remoteImg, versionFile>>
    /\ UNCHANGED <<threads, cache, pc, call, req, mk, ret, last, ages, misses, stores, ncalls, gate>>

\* a build writes the build-version record
WriteVersion ==
    /\ envCount < MaxEnv
    /\ versionFile # VersionRecord(CurrVersion)
    /\ versionFile' = VersionRecord(CurrVersion)
    /\ envCount' = envCount + 1
    /\ UNCHANGED <<now, dockerfile, dirty, gitlog, localImg, remoteImg>>
    /\ UNCHANGED <<threads, cache, pc, call, req, mk, ret, last, ages, misses, stores, ncalls, gate>>

(***************************************************************************)
(* The workers: returning, raising, storing.                               *)
(***************************************************************************)
EnvSame ==
    UNCHANGED <<now, dockerfile, dirty, gitlog, localImg, remoteImg, versionFile,
                envCount, threads>>

RetMarker(w, m) ==
    [fn |-> call[w].fn, image |-> call[w].image, include_self |-> call[w].include_self,
     raised |-> FALSE, error |-> "", marker |-> m, files |-> {}]

RetFiles(w, fs) ==
    [fn |-> call[w].fn, image |-> call[w].image, include_self |-> call[w].include_self,
     raised |-> FALSE, error |-> "", marker |-> NoPath, files |-> fs]

RetRaised(w, e) ==
    [fn |-> call[w].fn, image |-> call[w].image, include_self |-> call[w].include_self,
     raised |-> TRUE, error |-> e, marker |-> NoPath, files |-> {}]

\* the host engine's call ends, with r
Finish(w, r) ==
    /\ pc' = [pc EXCEPT ![w] = "idle"]
    /\ call' = [call EXCEPT ![w] = NoCall]
    /\ req' = [req EXCEPT ![w] = NoReq]
    /\ mk' = [mk EXCEPT ![w] = NoMk]
    /\ ret' = [ret EXCEPT ![w] = r]

\* an exception, were the wrapper to store a marker for the key on the way out
RaiseAndStore(w, e) ==
    /\ Finish(w, RetRaised(w, e))
    /\ cache' = IF mk[w].image \in Images
                THEN [k \in DOMAIN cache \cup {mk[w].image} |->
                        IF k = mk[w].image THEN <<k, ".docker_build">> ELSE cache[k]]
                ELSE cache
    /\ UNCHANGED <<last, ages, misses, stores, ncalls, gate>>

\* an exception propagates to the host engine: no frame catches it
Raise(w, e) ==
    /\ Finish(w, RetRaised(w, e))
    /\ UNCHANGED <<cache, last, ages, misses, stores, ncalls, gate>>

NeverHit(image) == FALSE

\* the lru_cache wrapper finds the key
CacheHit(image) == image \in DOMAIN cache

CachedLast(image) ==
    [NoLast EXCEPT !.image = image, !.how = "cached", !.marker = cache[image],
                   !.env = envCount]

\* lines 297-300, were the base listed without its marker
ReqContinueBare(w, image, requirements) ==
    LET base_image == _docker_base(image)
    IN  IF base_image.raised THEN Finish(w, RetRaised(w, base_image.value))
        ELSE IF base_image.value = NoBase THEN Finish(w, RetFiles(w, requirements))
        ELSE /\ req' = [req EXCEPT ![w] = [image |-> base_image.value,
                                           include_self |-> FALSE,
                                           acc |-> requirements]]
             /\ mk' = [mk EXCEPT ![w] = NoMk]
             /\ pc' = [pc EXCEPT ![w] = "req_list"]
             /\ UNCHANGED <<call, ret>>

\* _docker_requirements, lines 297-300, of the frame for image, whose list so far
\* is requirements: the base is read; a managed base is the next frame, with
\* include_self, an external one ends the recursion and the list is returned
ReqContinue(w, image, requirements) ==
    LET base_image == _docker_base(image)
    IN  IF base_image.raised THEN Finish(w, RetRaised(w, base_image.value))
        ELSE IF base_image.value = NoBase THEN Finish(w, RetFiles(w, requirements))
        ELSE /\ req' = [req EXCEPT ![w] = [image |-> base_image.value,
                                           include_self |-> TRUE,
                                           acc |-> requirements]]
             /\ mk' = [mk EXCEPT ![w] = NoMk]
             /\ pc' = [pc EXCEPT ![w] = "req_list"]
             /\ UNCHANGED <<call, ret>>

\* docker_image_marker returns l.marker: the wrapper stores it under the key and
\* hands it to the caller, the host engine or _docker_requirements (line 296)
Resolved(w, l) ==
    /\ cache' = [k \in DOMAIN cache \cup {l.image} |->
                    IF k = l.image THEN l.marker ELSE cache[k]]
    /\ stores' = [stores EXCEPT ![l.image] = @ + 1]
    /\ last' = [last EXCEPT ![w] = l]
    /\ IF call[w].fn = "docker_image_marker"
       THEN Finish(w, RetMarker(w, l.marker))
       ELSE ReqContinue(w, l.image, req[w].acc \cup {l.marker})

(***************************************************************************)
(* docker_image_marker                                                     *)
(***************************************************************************)
docker_build(image) == Path(image, DOCKER_BUILD)
docker_update(image) == Path(image, DOCKER_UPDATE)

ImagespecNotOlder(dockerfile_timestamp, docker_image_timestamp) ==
    dockerfile_timestamp >= docker_image_timestamp

ImagespecNewerThanFound(dockerfile_timestamp, docker_image_timestamp) ==
    docker_image_timestamp # ABSENT /\ dockerfile_timestamp > docker_image_timestamp

ImagespecNeverChanged(dockerfile_timestamp, docker_image_timestamp) == FALSE

\* line 263
local_imagespec_changed(dockerfile_timestamp, docker_image_timestamp) ==
    dockerfile_timestamp > docker_image_timestamp

\* docker_push, image_markers: the host engine asks for the marker of an image
CallMarker(w, image) ==
    /\ w \in Active
    /\ pc[w] = "idle"
    /\ ncalls < MaxCalls
    /\ ncalls' = ncalls + 1
    /\ IF CacheHit(image)
       THEN /\ ret' = [ret EXCEPT ![w] =
                         [RetMarker(w, cache[image]) EXCEPT
                            !.fn = "docker_image_marker", !.image = image]]
            /\ last' = [last EXCEPT ![w] = CachedLast(image)]
            /\ UNCHANGED <<pc, call, mk, misses>>
       ELSE /\ call' = [call EXCEPT ![w] =
                          [fn |-> "docker_image_marker", image |-> image,
                           include_self |-> FALSE]]
            /\ mk' = [mk EXCEPT ![w] = NewMk(image)]
            /\ pc' = [pc EXCEPT ![w] = "file_age"]
            /\ misses' = [misses EXCEPT ![image] = @ + 1]
            /\ ret' = [ret EXCEPT ![w] = NoRet]
            /\ last' = [last EXCEPT ![w] = NoLast]
    /\ UNCHANGED <<req, cache, ages, stores, gate>>
    /\ EnvSame

\* ages, with what the calls of docker_file_age returned in results
Returned(results) ==
    [i \in Images |->
        IF \E k \in 1..Len(results) : results[k][1] = i
        THEN [done |-> TRUE,
              ts |-> results[CHOOSE k \in 1..Len(results) : results[k][1] = i][2]]
        ELSE ages[i]]

\* docker_file_age, lines 215-220, for the image mk[w].cur: git_file_age of its
\* directory, then _docker_base; a managed base is the next level of the recursion,
\* an external one ends it and the maxima are taken on the way back (line 220)
FileAgeStep(w) ==
    /\ pc[w] = "file_age"
    /\ Len(mk[w].levels) < MaxDepth
    /\ LET image == mk[w].cur
           result == git_file_age(image)
           base_image == _docker_base(image)
           levels == Append(mk[w].levels, <<image, result.value>>)
           own == Append(mk[w].own, [image |-> image, value |-> result.value,
                                     warned |-> result.warned])
       IN  IF result.raised THEN Raise(w, "ValueError")
           ELSE IF base_image.raised THEN Raise(w, base_image.value)
           ELSE /\ IF base_image.value # NoBase
                   THEN /\ mk' = [mk EXCEPT ![w].levels = levels,
                                            ![w].own = own,
                                            ![w].cur = base_image.value]
                        /\ pc' = pc
                        /\ ages' = ages
                   ELSE /\ mk' = [mk EXCEPT ![w].levels = FileAges(levels),
                                            ![w].own = own,
                                            ![w].cur = "",
                                            ![w].file_ts = FileAges(levels)[1][2]]
                        /\ pc' = [pc EXCEPT ![w] = "image_age"]
                        /\ ages' = Returned(FileAges(levels))
                /\ UNCHANGED <<call, req, ret, cache, last, misses, stores, ncalls, gate>>
    /\ EnvSame

\* docker_image_age returns ts to docker_image_marker, line 254
ImageAgeReturns(w, ts, outs, remote) ==
    /\ mk' = [mk EXCEPT ![w].image_ts = ts, ![w].outs = outs, ![w].remote = remote]
    /\ pc' = [pc EXCEPT ![w] = "gate"]
    /\ UNCHANGED <<call, req, ret, cache, last, ages, misses, stores, ncalls, gate>>

AnyOutput(date_string) == TRUE

\* line 153
NotFound(date_string) == date_string = "empty"

RetryPullsAgain == TRUE

\* the pull_on_error of the recursive call, line 152
RetryPullOnError == FALSE

\* docker_image_age, lines 126-139: docker inspect and the parse of its output
InspectStep(w) ==
    /\ pc[w] = "image_age"
    /\ LET image == mk[w].image
           date_string == Inspect(image)
           outs == Append(mk[w].outs, date_string)
       IN  IF date_string = "date"
           THEN ImageAgeReturns(w, localImg[image].created, outs, mk[w].remote)
           ELSE /\ mk' = [mk EXCEPT ![w].outs = outs]
                /\ pc' = [pc EXCEPT ![w] = "age_error"]
                /\ UNCHANGED <<call, req, ret, cache, last, ages, misses, stores, ncalls, gate>>
    /\ EnvSame

\* docker_image_age, lines 140-161: the handler of the ValueError
AgeErrorStep(w) ==
    /\ pc[w] = "age_error"
    /\ LET image == mk[w].image
           date_string == mk[w].outs[Len(mk[w].outs)]
           remote == docker_image_exists(image, FALSE)
           \* the remote checks of this call: and short-circuits on pull_on_error
           checks == IF mk[w].pull_on_error THEN Append(mk[w].remote, remote)
                     ELSE mk[w].remote
       IN  IF mk[w].pull_on_error /\ remote
           THEN /\ mk' = [mk EXCEPT ![w].remote = checks]
                /\ pc' = [pc EXCEPT ![w] = "pull"]
                /\ UNCHANGED <<call, req, ret, cache, last, ages, misses, stores, ncalls, gate>>
           ELSE IF NotFound(date_string)
           THEN ImageAgeReturns(w, ABSENT, mk[w].outs, checks)
           ELSE Raise(w, "ValueError")
    /\ EnvSame

\* docker_image_age, lines 142-152: docker pull, whose outcome the code does not
\* look at, then the recursive call
PullStep(w) ==
    /\ pc[w] = "pull"
    /\ LET image == mk[w].image
       IN  \E pulled \in BOOLEAN :
              localImg' = IF pulled /\ remoteImg[image].st = "image"
                          THEN [localImg EXCEPT ![image] = remoteImg[image]]
                          ELSE localImg
    /\ mk' = [mk EXCEPT ![w].pulls = @ + 1, ![w].pull_on_error = RetryPullOnError]
    /\ pc' = [pc EXCEPT ![w] = "image_age"]
    /\ UNCHANGED <<call, req, ret, cache, last, ages, misses, stores, ncalls, gate>>
    /\ UNCHANGED <<now, dockerfile, dirty, gitlog, remoteImg, versionFile, envCount, threads>>

\* lines 263-268: the version gate is read and the first branch decided
GateStep(w) ==
    /\ pc[w] = "gate"
    /\ LET image == mk[w].image
           imagespec == local_imagespec_changed(mk[w].file_ts, mk[w].image_ts)
           local_codespec_changed == ~version_not_changed
       IN  IF imagespec \/ local_codespec_changed
           THEN /\ Resolved(w, [NoLast EXCEPT
                        !.image = image, !.how = "computed", !.own = mk[w].own,
                        !.file_ts = mk[w].file_ts, !.image_ts = mk[w].image_ts,
                        !.build_version = versionFile,
                        !.codespec_changed = local_codespec_changed,
                        !.branch = "rebuilding", !.marker = docker_build(image),
                        !.env = envCount])
                /\ UNCHANGED <<ages, misses, ncalls>>
           ELSE /\ pc' = [pc EXCEPT ![w] = "exists"]
                /\ mk' = [mk EXCEPT ![w].build_version = versionFile]
                /\ UNCHANGED <<call, req, ret, cache, last, ages, misses, stores, ncalls>>
    /\ gate' = [reads |-> gate.reads + 1,
                values |-> gate.values \cup {version_not_changed}]
    /\ EnvSame

\* lines 269-280: the existence checks, local first and remote only if that fails
ExistsStep(w) ==
    /\ pc[w] = "exists"
    /\ LET image == mk[w].image
           exists_local == docker_image_exists(image, TRUE)
           exists_remote == docker_image_exists(image, FALSE)
           found == exists_local \/ exists_remote
       IN  /\ Resolved(w, [NoLast EXCEPT
                   !.image = image, !.how = "computed", !.own = mk[w].own,
                   !.file_ts = mk[w].file_ts, !.image_ts = mk[w].image_ts,
                   !.build_version = mk[w].build_version,
                   !.codespec_changed = FALSE, !.env = envCount,
                   !.exists_local = IF exists_local THEN "yes" ELSE "no",
                   !.exists_remote = IF exists_local THEN "unread"
                                     ELSE IF exists_remote THEN "yes" ELSE "no",
                   !.branch = IF found THEN "refreshing source code only" ELSE "building",
                   !.marker = IF found THEN docker_update(image) ELSE docker_build(image)])
           /\ UNCHANGED <<ages, misses, ncalls, gate>>
    /\ EnvSame

(***************************************************************************)
(* _docker_requirements                                                    *)
(***************************************************************************)
\* docker_requirements, docker_push_requirements
CallRequirements(w, image, include_self) ==
    /\ w \in Active
    /\ pc[w] = "idle"
    /\ ncalls < MaxCalls
    /\ ncalls' = ncalls + 1
    /\ call' = [call EXCEPT ![w] =
                  [fn |-> "_docker_requirements", image |-> image,
                   include_self |-> include_self]]
    /\ req' = [req EXCEPT ![w] =
                 [image |-> image, include_self |-> include_self, acc |-> {}]]
    /\ pc' = [pc EXCEPT ![w] = "req_list"]
    /\ ret' = [ret EXCEPT ![w] = NoRet]
    /\ last' = [last EXCEPT ![w] = NoLast]
    /\ UNCHANGED <<mk, cache, ages, misses, stores, gate>>
    /\ EnvSame

NamedRequirements(image) ==
    {Path(image, "Dockerfile")}
        \cup {Path(image, f) : f \in {g \in listdir(image) : g = "requirements.txt"}}

\* lines 287-294: the Dockerfile and the listed files that end in requirements.txt
OwnFiles(image) ==
    {Path(image, "Dockerfile")}
        \cup {Path(image, f) : f \in {g \in listdir(image) : endswith(g, "requirements.txt")}}

\* lines 285-300 of the frame for req[w].image: the directory is listed, with
\* include_self docker_image_marker is called, and the base is read
ReqListStep(w) ==
    /\ pc[w] = "req_list"
    /\ LET image == req[w].image
           requirements == req[w].acc \cup OwnFiles(image)
       IN  IF ~isdir(image) THEN Raise(w, "FileNotFoundError")
           ELSE IF ~req[w].include_self
           THEN /\ ReqContinue(w, image, requirements)
                /\ UNCHANGED <<cache, last, ages, misses, stores, ncalls, gate>>
           ELSE IF CacheHit(image)
           THEN /\ ReqContinue(w, image, requirements \cup {cache[image]})
                /\ last' = [last EXCEPT ![w] = CachedLast(image)]
                /\ UNCHANGED <<cache, ages, misses, stores, ncalls, gate>>
           ELSE /\ req' = [req EXCEPT ![w].acc = requirements]
                /\ mk' = [mk EXCEPT ![w] = NewMk(image)]
                /\ pc' = [pc EXCEPT ![w] = "file_age"]
                /\ misses' = [misses EXCEPT ![image] = @ + 1]
                /\ UNCHANGED <<call, ret, cache, last, ages, stores, ncalls, gate>>
    /\ EnvSame

(***************************************************************************)
(* The specification.                                                      *)
(***************************************************************************)
Next ==
    \/ Tick
    \/ \E image \in Images, f \in FileNames : Edit(image, f)
    \/ \E image \in Images : DockerBuild(image)
    \/ \E image \in Images : DockerRemove(image)
    \/ WriteVersion
    \/ \E w \in Workers, image \in Images : CallMarker(w, image)
    \/ \E w \in Workers, image \in Images, include_self \in BOOLEAN :
          CallRequirements(w, image, include_self)
    \/ \E w \in Workers : FileAgeStep(w)
    \/ \E w \in Workers : InspectStep(w)
    \/ \E w \in Workers : AgeErrorStep(w)
    \/ \E w \in Workers : PullStep(w)
    \/ \E w \in Workers : GateStep(w)
    \/ \E w \in Workers : ExistsStep(w)
    \/ \E w \in Workers : ReqListStep(w)

Spec == Init /\ [][Next]_vars

\* a run of two workers, in a repository that is committed, built and pushed, and
\* recorded at an older version
InitThreads ==
    /\ InitEnv([git |-> Committed, local |-> Image(0), remote |-> Image(0),
                version |-> VersionRecord(<<0, 9>>)])
    /\ threads = 2
    /\ InitProgram

SpecThreads == InitThreads /\ [][Next]_vars

\* op <- op-r-base <- op-r-extras <- op: a cyclic base declaration
CycleLayout == [ChainLayout EXCEPT !["op"] = FromImage("op-r-extras")]

\* the chain, with the Dockerfile of image missing
MissingRecipe(image) == [ChainLayout EXCEPT ![image] = NoFile]

Sound == [layout |-> ChainLayout, log |-> Committed.log, local |-> Image(0),
          remote |-> Image(0), version |-> VersionRecord(CurrVersion)]

\* the conditions a run with a fault starts in: none, an old build-version
\* record, a recipe missing, git printing something that is not a timestamp for a
\* directory, no git history, an image whose age does not parse and that is not
\* in the registry, a cycle
Faults ==
    {Sound, [Sound EXCEPT !.version = VersionRecord(<<0, 9>>)]}
        \cup {[Sound EXCEPT !.layout = MissingRecipe(i)] : i \in Images}
        \cup {[Sound EXCEPT !.log = [Committed.log EXCEPT !["op-r-extras"] = GitText]],
               [Sound EXCEPT !.log = [i \in Images |-> GitEmpty]],
               [Sound EXCEPT !.local = OddImage, !.remote = NoImage],
               [Sound EXCEPT !.layout = CycleLayout]}

\* a run of one worker that starts in the conditions f
InitFrom(f) ==
    /\ dockerfile = f.layout
    /\ gitlog = f.log
    /\ localImg = [i \in Images |-> f.local]
    /\ remoteImg = [i \in Images |-> f.remote]
    /\ versionFile = f.version
    /\ now = 1
    /\ dirty = Clean
    /\ envCount = 0
    /\ threads = 1
    /\ InitProgram

\* a run of one worker in a repository with a fault
InitFaults == \E f \in Faults : InitFrom(f)

SpecFaults == InitFaults /\ [][Next]_vars

\* the steps of worker w inside a call: each is a subprocess or a file read that
\* returns, so a worker inside a call takes its next step
Step(w) ==
    \/ FileAgeStep(w)
    \/ InspectStep(w)
    \/ AgeErrorStep(w)
    \/ PullStep(w)
    \/ GateStep(w)
    \/ ExistsStep(w)
    \/ ReqListStep(w)

\* the base declarations a walk goes up: the chain, here with an old
\* build-version record, and the cycle
Declared ==
    {[Sound EXCEPT !.version = VersionRecord(<<0, 9>>)],
     [Sound EXCEPT !.layout = CycleLayout]}

InitWalk == \E f \in Declared : InitFrom(f)

\* the runs in which every worker goes on with its call
SpecWalk == InitWalk /\ [][Next]_vars /\ \A w \in Workers : WF_vars(Step(w))

(***************************************************************************)
(* Properties.                                                             *)
(***************************************************************************)
\* the resolutions that ran the body of docker_image_marker to its end
Computed == {w \in Workers : last[w].how = "computed"}

Rebuild == "rebuilding"
Refresh == "refreshing source code only"
MissingBuild == "building"

\* C1: every decision of docker_image_marker is the rule's: Rebuild when the
\* specification age exceeds the registry age or the gate is open, else Refresh
\* when the image exists locally or remotely, else MissingBuild; the marker is
\* .docker_build for Rebuild and MissingBuild and .docker_update for Refresh
C1_DecisionRule ==
    \A w \in Computed :
        LET l == last[w]
            rebuild == l.file_ts > l.image_ts \/ l.codespec_changed
            found == l.exists_local = "yes" \/ l.exists_remote = "yes"
        IN  /\ rebuild =>
                /\ l.branch = Rebuild
                /\ l.marker = <<l.image, ".docker_build">>
            /\ ~rebuild /\ found =>
                /\ l.branch = Refresh
                /\ l.marker = <<l.image, ".docker_update">>
            /\ ~rebuild /\ ~found =>
                /\ l.branch = MissingBuild
                /\ l.marker = <<l.image, ".docker_build">>
                /\ l.exists_local = "no" /\ l.exists_remote = "no"

\* a resolution that found the image neither locally nor remotely, after its age
\* had been read and was not older than the specification
C1_Witness ==
    \E w \in Computed :
        /\ last[w].branch = MissingBuild
        /\ last[w].file_ts <= last[w].image_ts
        /\ ~last[w].codespec_changed

\* C2: in a run of one worker a marker is computed at most once per image; once
\* it is stored no call enters the body again, and every call that returns,
\* returns the stored marker
C2_Memoized ==
    threads = 1 =>
        /\ \A image \in Images :
              /\ stores[image] <= 1
              /\ image \in DOMAIN cache <=> stores[image] = 1
              /\ image \in DOMAIN cache => \A w \in Workers : mk[w].image # image
        /\ \A w \in Workers :
              /\ last[w].how # "none" =>
                    /\ last[w].image \in DOMAIN cache
                    /\ last[w].marker = cache[last[w].image]
              /\ ret[w].fn = "docker_image_marker" /\ ~ret[w].raised =>
                    /\ ret[w].image \in DOMAIN cache
                    /\ ret[w].marker = cache[ret[w].image]

\* a later call got the stored refresh marker although a file of the image was
\* edited after its age was read, which a fresh resolution would answer by a rebuild
C2_Witness ==
    \E w \in Workers :
        /\ threads = 1
        /\ ret[w].fn = "docker_image_marker" /\ ~ret[w].raised
        /\ last[w].how = "cached"
        /\ last[w].env > 0
        /\ last[w].marker = docker_update(last[w].image)
        /\ git_file_diff(last[w].image)
        /\ ages[last[w].image].done /\ ages[last[w].image].ts < now
        /\ localImg[last[w].image] = Image(0)

\* C3: with two workers, the body of docker_image_marker still runs to its end
\* at most once per image, and the workers get the same marker for an image
C3_AtMostOncePerKey ==
    /\ \A image \in Images : stores[image] <= 1
    /\ \A v, w \in Workers :
          (/\ last[v].how # "none"
           /\ last[w].how # "none"
           /\ last[v].image = last[w].image)
          => last[v].marker = last[w].marker

\* the image and its managed ancestors, at most n levels up
RECURSIVE Chain(_, _)
Chain(image, n) ==
    IF n = 0 \/ image \notin Images THEN {}
    ELSE {image} \cup
         (IF dockerfile[image] = NoFile \/ ParsedBase[dockerfile[image]].raised THEN {}
          ELSE Chain(ParsedBase[dockerfile[image]].value, n - 1))

Ancestry(image) == Chain(image, Cardinality(Images))

\* only the clock has moved since the start: git is as it was
OnlyTicks == envCount = now - 1

\* C4: the ages docker_file_age returned in one run are ordered along
\* every base chain, whatever the order of the calls (here with git unchanged
\* through the run)
C4_ChainOrdered ==
    OnlyTicks =>
        \A image \in Images :
            \A base \in Ancestry(image) :
                ages[image].done /\ ages[base].done => ages[image].ts >= ages[base].ts

\* the workers whose docker_file_age has returned to docker_image_marker
AgeKnown == {w \in Workers : pc[w] \in {"image_age", "age_error", "pull", "gate", "exists"}}

\* what the recursion of docker_file_age gives: the ages returned within one
\* call, by the call and its recursive calls, are ordered along the chain
OrderedWithinCall ==
    \A w \in AgeKnown :
        LET levels == mk[w].levels
        IN  /\ mk[w].file_ts = levels[1][2]
            /\ levels[1][1] = mk[w].image
            /\ \A k \in 1..(Len(levels) - 1) :
                  /\ levels[k][2] >= levels[k + 1][2]
                  /\ levels[k + 1][1] = ParsedBase[dockerfile[levels[k][1]]].value

\* the case of C5: the registry age read was ABSENT, the gate was closed and the
\* image exists neither locally nor remotely
AbsentEverywhere(w) ==
    /\ last[w].image_ts = ABSENT
    /\ last[w].file_ts >= 0
    /\ ~last[w].codespec_changed
    /\ ~docker_image_exists(last[w].image, TRUE)
    /\ ~docker_image_exists(last[w].image, FALSE)

\* C5, as claimed: with the artifact absent everywhere and the gate closed the
\* decision is MissingBuild, the third branch
C5_MissingBuild ==
    \A w \in Computed : AbsentEverywhere(w) => last[w].branch = MissingBuild

\* C5, amended: with the artifact absent everywhere and the gate closed the
\* decision is Rebuild, the first branch, without an existence check, and the
\* marker is .docker_build
C5_Rebuild ==
    \A w \in Computed :
        AbsentEverywhere(w) =>
            /\ last[w].branch = Rebuild
            /\ last[w].marker = <<last[w].image, ".docker_build">>
            /\ last[w].exists_local = "unread"
            /\ last[w].exists_remote = "unread"

C5_Witness == \E w \in Computed : AbsentEverywhere(w) /\ last[w].build_version.exists

\* the calls of _docker_requirements that returned
Listed == {w \in Workers : ret[w].fn = "_docker_requirements" /\ ~ret[w].raised}

\* C6: every file the glob of git_file_age matches, in the directory of the image
\* and of each managed ancestor, is in the list _docker_requirements returns
C6_WatchSet ==
    \A w \in Listed :
        \A image \in Ancestry(ret[w].image) :
            \A f \in listdir(image) : <<image, f>> \in ret[w].files

\* the recipe and the dependency files of a directory
RecipeFiles(image) ==
    {<<image, "Dockerfile">>}
        \cup {<<image, f>> : f \in {g \in Extras[image] : endswith(g, "requirements.txt")}}

\* C7: _docker_requirements returns the recipe and the dependency files of the
\* image and of every managed ancestor, the marker docker_image_marker gave for
\* every managed ancestor, the image's own marker iff include_self, and nothing else
C7_Requirements ==
    \A w \in Listed :
        LET image == ret[w].image
            marked == (Ancestry(image) \ {image})
                        \cup (IF ret[w].include_self THEN {image} ELSE {})
        IN  /\ marked \subseteq DOMAIN cache
            /\ ret[w].files =
                  UNION {RecipeFiles(i) : i \in Ancestry(image)}
                     \cup {cache[i] : i \in marked}

\* the list of an image three levels down, with its own marker
C7_Witness ==
    \E w \in Listed :
        /\ ret[w].include_self
        /\ Cardinality(Ancestry(ret[w].image)) = 3
        /\ Cardinality(ret[w].files) = 7

\* C8: one call of docker_image_age inspects at most twice and pulls at most
\* once; it pulls only after a first inspection that did not parse and a remote
\* check that found the image, and the retry neither checks nor pulls again
C8_OneRetry ==
    \A w \in Workers :
        /\ Len(mk[w].outs) <= 2
        /\ mk[w].pulls <= 1
        /\ Len(mk[w].remote) <= 1
        /\ Len(mk[w].outs) = 2 => mk[w].pulls = 1
        /\ pc[w] = "pull" => mk[w].pulls = 0
        /\ pc[w] = "pull" \/ mk[w].pulls = 1 =>
              /\ Len(mk[w].outs) >= 1
              /\ mk[w].outs[1] # "date"
              /\ mk[w].remote = <<TRUE>>
        /\ mk[w].pulls = 1 => ~mk[w].pull_on_error

\* a call that pulled, inspected again in vain and returned ABSENT
C8_Witness ==
    \E w \in Workers :
        /\ pc[w] = "gate"
        /\ mk[w].pulls = 1
        /\ mk[w].outs = <<"empty", "empty">>
        /\ mk[w].image_ts = ABSENT

\* the workers whose docker_image_age has returned to docker_image_marker
RegistryAgeKnown == {w \in Workers : pc[w] \in {"gate", "exists"}}

\* C9, as claimed: a call of docker_image_age in which an inspection printed
\* text that is not a date does not return
C9_TextIsFatal ==
    \A w \in RegistryAgeKnown :
        \A k \in 1..Len(mk[w].outs) : mk[w].outs[k] # "text"

\* C9, amended: docker_image_age returns ABSENT only when its last inspection
\* printed nothing, and never returns when its last inspection printed text that
\* is not a date; such text in the first inspection is followed by a return only
\* when the image exists remotely and was pulled
C9_LastTextIsFatal ==
    \A w \in RegistryAgeKnown :
        LET outs == mk[w].outs
        IN  /\ outs[Len(outs)] # "text"
            /\ mk[w].image_ts = ABSENT <=> outs[Len(outs)] = "empty"
            /\ outs[1] = "text" => mk[w].pulls = 1 /\ mk[w].remote = <<TRUE>>

\* the first inspection printed text, the image existed remotely and was pulled,
\* and the call returned the pulled image's age
C9_Witness ==
    \E w \in RegistryAgeKnown :
        /\ mk[w].outs = <<"text", "date">>
        /\ mk[w].image_ts # ABSENT

\* a is a later release than b
Newer(a, b) == \E i \in 1..2 : a[i] > b[i] /\ \A j \in 1..(i - 1) : a[j] = b[j]

GateOpen(record) == ~record.exists \/ Newer(CurrVersion, record.version)

\* C10: the gate a resolution found open is open iff the build-version record it
\* read was absent or older than the running version
C10_Gate ==
    /\ \A w \in Computed : last[w].codespec_changed <=> GateOpen(last[w].build_version)
    /\ \A w \in Workers : pc[w] = "exists" => ~GateOpen(mk[w].build_version)

\* a resolution found the gate closed on a record newer than the running version
C10_Witness ==
    \E w \in Computed :
        /\ ~last[w].codespec_changed
        /\ last[w].build_version.exists
        /\ Newer(last[w].build_version.version, CurrVersion)

\* C11: in one run the build-version record is read at most once and every
\* resolution uses the same gate value, whatever is written to the record between
\* one resolution and the next
C11_GateOncePerRun ==
    /\ gate.reads <= 1
    /\ Cardinality(gate.values) <= 1

\* the step of worker w at git_file_age and _docker_base, for the directory of
\* mk[w].cur
WalkStep(w) == pc[w] = "file_age" /\ (mk'[w] # mk[w] \/ ret'[w] # ret[w])

Warnings(own) == Len(SelectSeq(own, LAMBDA o : o.warned))

\* C12: git_file_age returns the clock for a path with staged or unstaged
\* changes, else the timestamp of the last commit, else, for a path without
\* history, 0 with exactly one warning; it fails only on an output that is
\* neither empty nor an integer
C12_GitFileAge ==
    [][\A w \in Workers :
          WalkStep(w) =>
              LET image == mk[w].cur
                  out == GitLogOf(image).out
                  fatal == ret'[w].raised /\ ret'[w].error = "ValueError"
                  returned == mk'[w].own[Len(mk'[w].own)]
              IN  /\ fatal <=> ~dirty[image] /\ out = "text"
                  /\ ~ret'[w].raised =>
                        /\ Len(mk'[w].own) = Len(mk[w].own) + 1
                        /\ returned.image = image
                        /\ dirty[image] =>
                              returned.value = now /\ ~returned.warned
                        /\ ~dirty[image] /\ out = "int" =>
                              returned.value = gitlog[image].ts /\ ~returned.warned
                        /\ ~dirty[image] /\ out = "empty" =>
                              returned.value = 0 /\ returned.warned
                        /\ Warnings(mk'[w].own) =
                              Warnings(mk[w].own) + (IF returned.warned THEN 1 ELSE 0)
    ]_vars

\* git_file_age returned 0 with a warning for a directory without history, and
\* the clock for a directory with changes
C12_Witness ==
    \E w \in Workers :
        /\ Len(mk[w].own) = 2
        /\ mk[w].own[1].value = 0 /\ mk[w].own[1].warned
        /\ mk[w].own[2].value = now /\ ~mk[w].own[2].warned /\ now > 0

\* the recipe of image or of one of its managed ancestors is missing
RecipeMissing(image) == \E i \in Ancestry(image) : dockerfile[i] = NoFile

\* C13: when the recipe of an image or of a managed ancestor is missing, no
\* resolution of the image gets past docker_file_age: no age is returned for it,
\* no marker is computed, stored or returned, and the call ends with the error of
\* the missing file
C13_MissingRecipeFatal ==
    /\ \A image \in Images :
          RecipeMissing(image) =>
              /\ ~ages[image].done
              /\ stores[image] = 0
              /\ image \notin DOMAIN cache
    /\ \A w \in Workers :
          /\ mk[w].image \in Images /\ RecipeMissing(mk[w].image) => pc[w] = "file_age"
          /\ last[w].image \in Images => ~RecipeMissing(last[w].image)
          /\ (/\ ret[w].fn = "docker_image_marker"
              /\ RecipeMissing(ret[w].image)) =>
                 /\ ret[w].raised
                 /\ ret[w].error = "FileNotFoundError"
                 /\ ret[w].marker = NoPath

\* docker_image_marker failed for an image whose own recipe is there and whose
\* ancestor two levels up has none
C13_Witness ==
    \E w \in Workers :
        /\ ret[w].fn = "docker_image_marker"
        /\ ret[w].image = "op-r-extras"
        /\ ret[w].raised
        /\ dockerfile["op-r-extras"] # NoFile
        /\ dockerfile["op"] = NoFile

\* the image n levels up the base chain of image, or what ends the chain
RECURSIVE Up(_, _)
Up(image, n) ==
    IF n = 0 \/ image \notin Images THEN image
    ELSE IF dockerfile[image] = NoFile THEN NoFile
    ELSE Up(ParsedBase[dockerfile[image]].value, n - 1)

\* the base declarations have a cycle
Cyclic == \E i \in Images : Up(i, Cardinality(Images)) \in Images

\* the walk of docker_file_age in progress or done: level k + 1 is the declared
\* base of level k
FollowsBases(levels) ==
    \A k \in 1..(Len(levels) - 1) :
        levels[k + 1][1] = ParsedBase[dockerfile[levels[k][1]]].value

\* what the walk may do: without a cycle it visits no image twice and returns at
\* the first image whose base is external; in a cycle it never returns and
\* never fails, so no call returns and nothing is cached
WalkSafe ==
    \A w \in Workers :
        LET levels == mk[w].levels
        IN  /\ FollowsBases(levels)
            /\ ~Cyclic =>
                  /\ \A j, k \in 1..Len(levels) : levels[j][1] = levels[k][1] => j = k
                  /\ w \in AgeKnown =>
                        ParsedBase[dockerfile[levels[Len(levels)][1]]].value = NoBase
            /\ Cyclic =>
                  /\ w \notin AgeKnown
                  /\ ret[w] = NoRet
                  /\ cache = <<>>

C15_AncestorChangePropagates ==
    \A w \in Computed :
        LET own == last[w].own
        IN  /\ {own[k].image : k \in 1..Len(own)} = Ancestry(last[w].image)
            /\ \A k \in 1..Len(own) :
                  own[k].value > last[w].image_ts =>
                      /\ last[w].branch = Rebuild
                      /\ last[w].marker = <<last[w].image, ".docker_build">>
                      /\ last[w].image \in DOMAIN cache

\* Rebuild with the gate closed and the image's own directory not newer than the
\* image, because of the ancestor two levels up
C15_Witness ==
    \E w \in Computed :
        LET own == last[w].own
        IN  /\ Len(own) = 3
            /\ own[1].value <= last[w].image_ts
            /\ own[2].value <= last[w].image_ts
            /\ own[3].value > last[w].image_ts
            /\ ~last[w].codespec_changed
            /\ last[w].marker = <<last[w].image, ".docker_build">>

\* C16: every specification age is at least 0, so a resolution whose registry age
\* is ABSENT decides Rebuild and makes no existence check; MissingBuild is decided
\* only with a registry age that is a timestamp not below the specification age,
\* the gate closed and both existence checks failing
C16_AbsentMeansRebuild ==
    /\ \A w \in Computed :
          /\ last[w].file_ts >= 0
          /\ last[w].image_ts = ABSENT =>
                /\ last[w].branch = Rebuild
                /\ last[w].exists_local = "unread"
                /\ last[w].exists_remote = "unread"
          /\ last[w].branch = MissingBuild =>
                /\ last[w].image_ts >= 0
                /\ last[w].image_ts >= last[w].file_ts
                /\ ~last[w].codespec_changed
                /\ last[w].exists_local = "no"
                /\ last[w].exists_remote = "no"
    /\ \A w \in Workers : pc[w] = "exists" => mk[w].image_ts # ABSENT

\* MissingBuild, decided with a registry age that was read as a timestamp
C16_Witness ==
    \E w \in Computed :
        /\ last[w].branch = MissingBuild
        /\ last[w].image_ts >= 0
        /\ last[w].exists_local = "no"
        /\ last[w].exists_remote = "no"

Markers(image) == {<<image, ".docker_build">>, <<image, ".docker_update">>}

\* C17: the list _docker_requirements returns without include_self holds, for
\* every managed ancestor, the one marker the cache holds for it, computed and
\* stored once, and no marker of the image itself; a later docker_image_marker of
\* an ancestor is a cache hit that returns that marker
C17_RequirementsAgreeWithCache ==
    /\ \A w \in Listed :
          ~ret[w].include_self =>
              /\ \A image \in Ancestry(ret[w].image) \ {ret[w].image} :
                    /\ image \in DOMAIN cache
                    /\ ret[w].files \cap Markers(image) = {cache[image]}
                    /\ stores[image] = 1
              /\ ret[w].files \cap Markers(ret[w].image) = {}
    /\ \A w \in Workers :
          (ret[w].fn = "docker_image_marker" /\ last[w].how = "cached") =>
              /\ ret[w].marker = cache[ret[w].image]
              /\ stores[ret[w].image] = 1
              /\ mk[w] = NoMk

\* the list of the image three levels down, without its own marker and with
\* different markers for its two ancestors
C17_Witness ==
    \E w \in Listed :
        /\ ~ret[w].include_self
        /\ ret[w].image = "op-r-extras"
        /\ <<"op", ".docker_build">> \in ret[w].files
        /\ <<"op-r-base", ".docker_update">> \in ret[w].files

\* the step in which the resolution worker w is in ends in an error
Fails(w) == pc[w] \in {"file_age", "age_error"} /\ ret'[w].raised

\* C18: a resolution that ends in an error stores nothing: the step leaves every
\* entry of the cache as it was and adds none for the image; only an image whose
\* marker was stored is in the cache, so the next call for the image is no hit
\* and runs the body again
C18_FailureStoresNothing ==
    /\ [][\A w \in Workers :
             Fails(w) =>
                 /\ cache' = cache
                 /\ stores' = stores
                 /\ mk[w].image \notin DOMAIN cache'
         ]_vars
    /\ [](/\ \A image \in Images : image \in DOMAIN cache <=> stores[image] >= 1
          /\ \A w \in Workers : last[w].how = "cached" => stores[last[w].image] >= 1)

\* docker_image_marker failed for an image, was called again, ran the body again
\* and failed again
C18_Witness ==
    \E w \in Workers :
        /\ ret[w].fn = "docker_image_marker"
        /\ ret[w].raised
        /\ misses[ret[w].image] = 2
        /\ stores[ret[w].image] = 0

====
